---- MODULE Spec2Model ----
(***************************************************************************)
(* OneEscrow: the escrow address ledger (handlers/addresses.py) and the    *)
(* role store it reads (main.py, EscrowBot.handle_role_selection).         *)
(*                                                                         *)
(* The bot runs on one asyncio event loop: a handler runs without          *)
(* interruption from one `await` to the next, and other handlers run in    *)
(* between.  Every action below is one such uninterrupted stretch of a     *)
(* handler.  The JSON files on disk are the variables roles_file and       *)
(* addr_file; what a handler has loaded is its own copy, kept in loc.      *)
(***************************************************************************)
EXTENDS Naturals, Sequences, FiniteSets, TLC

VARIABLES
    roles_file,    \* data/user_roles.json: the groups in insertion order, and group -> uid key -> entry
    addr_file,     \* data/user_addresses.json: whether it parses, and group -> role -> record
    pc,            \* per invocation of handle_address_command: where it is suspended
    ev,            \* per invocation: the event (sender id, role_key of the command, address or NoAddress)
    loc,           \* per invocation: its local variables
    outcome,       \* per invocation: the message the user was answered with ("none" while running)
    http,          \* per invocation: HTTP GET requests issued to explorers so far
    recAtStart,    \* history: per invocation, the (group, role) pairs that had a record when it started
    firstSaved,    \* history: per (group, role), the record of the first submission answered 'Saved'
    nsub,          \* submissions received so far
    groups_file,   \* data/active_groups.json: group -> its record
    sent,          \* history: per group, the /begin commands received, the role prompts sent
                   \* and the invocations of update_final_group_photo
    blacklist_file, \* data/blacklist.json: the lists users and usernames
    calls          \* history: the ids added to the blacklist and not removed since, and
                   \* the last call of add_to_blacklist or remove_from_blacklist

vars == <<roles_file, addr_file, pc, ev, loc, outcome, http, recAtStart, firstSaved, nsub,
          groups_file, sent, blacklist_file, calls>>

----------------------------------------------------------------------------
(* Bounds of the model *)

MaxSubmissions == 2
MaxSelections == 3

Procs  == {"p1", "p2"}          \* invocations of handle_address_command that can be in flight together
Users  == {1, 2}                \* Telegram user ids
Groups == {"g1", "g2"}          \* keys of data/active_groups.json
Roles  == {"buyer", "seller"}

None == "none"

----------------------------------------------------------------------------
(* Addresses.  An address string is kept as what the patterns look at: its *)
(* leading literal, the number of characters after it, the character sets  *)
(* that contain every one of those characters, and whether the first of    *)
(* them is in [5-9A-HJ-NP-U] (the second character of a DOGE address).     *)

NoAddress == [pre |-> "", n |-> 0, cs |-> {}, d2 |-> FALSE]   \* the command had no argument

EvmAddress == [pre |-> "0x", n |-> 40, cs |-> {"hex", "alnum"}, d2 |-> FALSE]
BtcAddress == [pre |-> "1", n |-> 33, cs |-> {"b58", "alnum"}, d2 |-> FALSE]
BadAddress == [pre |-> "0x", n |-> 39, cs |-> {"hex", "alnum"}, d2 |-> FALSE]
LtcAddress == [pre |-> "L", n |-> 33, cs |-> {"b58", "alnum"}, d2 |-> FALSE]
TrxAddress == [pre |-> "T", n |-> 33, cs |-> {"b58", "alnum"}, d2 |-> FALSE]

Addresses == {EvmAddress, BtcAddress, LtcAddress, TrxAddress, BadAddress, NoAddress}

\* the address strings looked at for the patterns themselves: every leading literal
\* of a pattern, every length up to MaxLen and every way the characters after the
\* literal can lie in the patterns' character sets (a base58, bech32 or hex character
\* is alphanumeric)
MaxLen == 72

Literals == {"1", "3", "bc1", "bc1p", "L", "M", "ltc1", "0x", "T", "D", "r"}

CharClasses == {cs \in SUBSET {"b58", "bech", "hex", "alnum"} : cs # {} => "alnum" \in cs}

AbstractAddresses == [pre : Literals, n : 1..MaxLen, cs : CharClasses, d2 : BOOLEAN]

InRange(n, lo, hi) == lo <= n /\ n <= hi

\* PATTERNS['BTC']: legacy, bech32, bech32m ("bc1p" + body is "bc1" + "p" + body)
MatchBTC(a) ==
    \/ a.pre \in {"1", "3"} /\ "b58" \in a.cs /\ InRange(a.n, 25, 34)
    \/ a.pre = "bc1" /\ "bech" \in a.cs /\ InRange(a.n, 11, 71)
    \/ a.pre = "bc1p" /\ "bech" \in a.cs /\ InRange(a.n, 11, 71)

\* PATTERNS['LTC']: legacy, bech32
MatchLTC(a) ==
    \/ a.pre \in {"L", "M", "3"} /\ "b58" \in a.cs /\ InRange(a.n, 26, 33)
    \/ a.pre = "ltc1" /\ "bech" \in a.cs /\ InRange(a.n, 11, 71)

MatchEVM(a) == a.pre = "0x" /\ "hex" \in a.cs /\ a.n = 40

MatchTRX(a) == a.pre = "T" /\ "alnum" \in a.cs /\ a.n = 33

MatchDOGE(a) == a.pre = "D" /\ a.d2 /\ "b58" \in a.cs /\ a.n = 33

MatchXRP(a) == a.pre = "r" /\ "alnum" \in a.cs /\ InRange(a.n, 24, 34)

\* detect_format: the family of the first pattern that matches, in the order tried
detect_format(a) ==
    IF MatchBTC(a) THEN "BTC"
    ELSE IF MatchLTC(a) THEN "LTC"
    ELSE IF MatchEVM(a) THEN "EVM"
    ELSE IF MatchTRX(a) THEN "TRX"
    ELSE IF MatchDOGE(a) THEN "DOGE"
    ELSE IF MatchXRP(a) THEN "XRP"
    ELSE "UNKNOWN"

\* the handler goes on with an address of no family
format_returns_never(chain_type) == FALSE

\* the handler returns after the detection, whatever the family
format_returns_always(chain_type) == TRUE

\* if chain_type == 'UNKNOWN': the message is edited and the handler returns
format_returns(chain_type) == chain_type = "UNKNOWN"

\* the chain_name detect_format returns beside the family
chain_name_of(t) ==
    CASE t = "BTC" -> "Bitcoin"
      [] t = "LTC" -> "Litecoin"
      [] t = "EVM" -> "EVM Compatible"
      [] t = "TRX" -> "Tron"
      [] t = "DOGE" -> "Dogecoin"
      [] t = "XRP" -> "Ripple"
      [] OTHER -> "Unknown Format"

----------------------------------------------------------------------------
(* The JSON stores *)

\* a dict with no keys
EmptyDict == [k \in {} |-> None]

\* d[k] = v, the key added when it is new
Put(d, k, v) == [x \in DOMAIN d \cup {k} |-> IF x = k THEN v ELSE d[x]]

\* str(sender.id), the key handle_role_selection stores a user under, and int(uid) back
StrOf(id) == <<"str", id>>
IntOf(uid) == uid[2]

\* load_json: the parsed file, {} when the file does not parse
load_json(file) == IF file.ok THEN file.data ELSE EmptyDict

\* addresses.get(g, {})
GroupAddresses(addresses, g) == IF g \in DOMAIN addresses THEN addresses[g] ELSE EmptyDict

HasRecord(addresses, g, r) == g \in DOMAIN addresses /\ r \in DOMAIN addresses[g]

----------------------------------------------------------------------------
(* EscrowBot.handle_role_selection.  Nothing is awaited between            *)
(* load_user_roles() and save_user_roles(): the handler's check and write  *)
(* are one step.                                                           *)

\* any(u.get("role") == role for u in roles[group_id].values())
role_taken_no_check(group_roles, role) == FALSE

role_taken(group_roles, role) == \E k \in DOMAIN group_roles : group_roles[k].role = role

SelectionAnswer_taken_only(roles, g, sender, role) ==
    LET group_roles == IF g \in DOMAIN roles.data THEN roles.data[g] ELSE EmptyDict IN
    IF role_taken(group_roles, role) THEN "ROLE_ALREADY_TAKEN" ELSE "ROLE_SELECTED"

\* what the click is answered with
SelectionAnswer(roles, g, sender, role) ==
    LET group_roles == IF g \in DOMAIN roles.data THEN roles.data[g] ELSE EmptyDict IN
    IF StrOf(sender) \in DOMAIN group_roles THEN "ROLE_ALREADY_CHOSEN"
    ELSE IF role_taken(group_roles, role) THEN "ROLE_ALREADY_TAKEN"
    ELSE "ROLE_SELECTED"

\* roles[group_id][str(sender.id)] = {...}; a group first written goes to the end of the dict
WithRole(roles, g, sender, role) ==
    LET group_roles == IF g \in DOMAIN roles.data THEN roles.data[g] ELSE EmptyDict IN
    [order |-> IF g \in DOMAIN roles.data THEN roles.order ELSE Append(roles.order, g),
     data  |-> Put(roles.data, g, Put(group_roles, StrOf(sender), [role |-> role, user_id |-> sender]))]

\* the entries of the role store, over all groups
NumSelections(roles) ==
    Cardinality({e \in Groups \X Users :
                    e[1] \in DOMAIN roles.data /\ StrOf(e[2]) \in DOMAIN roles.data[e[1]]})

handle_role_selection(sender, g, role) ==
    /\ NumSelections(roles_file) < MaxSelections
    /\ roles_file' = IF SelectionAnswer(roles_file, g, sender, role) = "ROLE_SELECTED"
                     THEN WithRole(roles_file, g, sender, role)
                     ELSE roles_file
    /\ UNCHANGED <<addr_file, pc, ev, loc, outcome, http, recAtStart, firstSaved, nsub, groups_file, sent, blacklist_file, calls>>

----------------------------------------------------------------------------
(* handle_address_command: the ledger checks *)

\* the first group, in the order of the roles dict, that has an entry for the user
FindUserGroup(roles, user_id) ==
    LET hits == {i \in 1..Len(roles.order) :
                    \E uid \in DOMAIN roles.data[roles.order[i]] : IntOf(uid) = user_id} IN
    IF hits = {} THEN None
    ELSE roles.order[CHOOSE i \in hits : \A j \in hits : i <= j]

\* data.get('role') of the user's entry in that group
UserRoleInGroup(roles, g, user_id) ==
    LET uid == CHOOSE k \in DOMAIN roles.data[g] : IntOf(k) = user_id IN
    roles.data[g][uid].role

\* no check that the user's role is the role of the command
LedgerOutcome_no_duplicate_check(roles, addresses, user_id, role_key) ==
    LET g == FindUserGroup(roles, user_id) IN
    IF g = None THEN "NO_ROLE"
    ELSE LET group_addresses == GroupAddresses(addresses, g) IN
         IF role_key \in DOMAIN group_addresses
            /\ group_addresses[role_key].user_id = user_id THEN "ALREADY_SET"
         ELSE "OK"

\* no check that the user has a role
LedgerOutcome_no_role_check(roles, addresses, user_id, role_key) ==
    LET g == FindUserGroup(roles, user_id) IN
    IF g = None THEN "OK"
    ELSE IF UserRoleInGroup(roles, g, user_id) # role_key THEN "DUPLICATE_USER"
    ELSE LET group_addresses == GroupAddresses(addresses, g) IN
         IF role_key \in DOMAIN group_addresses
            /\ group_addresses[role_key].user_id = user_id THEN "ALREADY_SET"
         ELSE "OK"

\* the stored address is looked for first, whoever owns it
LedgerOutcome_already_set_first(roles, addresses, user_id, role_key) ==
    LET g == FindUserGroup(roles, user_id) IN
    IF g = None THEN "NO_ROLE"
    ELSE IF role_key \in DOMAIN GroupAddresses(addresses, g) THEN "ALREADY_SET"
    ELSE IF UserRoleInGroup(roles, g, user_id) # role_key THEN "DUPLICATE_USER"
    ELSE "OK"

\* the checks between "Load data" and "Verify address", in the order of the code
LedgerOutcome(roles, addresses, user_id, role_key) ==
    LET g == FindUserGroup(roles, user_id) IN
    IF g = None THEN "NO_ROLE"
    ELSE IF UserRoleInGroup(roles, g, user_id) # role_key THEN "DUPLICATE_USER"
    ELSE LET group_addresses == GroupAddresses(addresses, g) IN
         IF role_key \in DOMAIN group_addresses
            /\ group_addresses[role_key].user_id = user_id THEN "ALREADY_SET"
         ELSE "OK"

\* the message is edited and the handler goes on
ledger_returns_never(o) == FALSE

\* the return after the duplicate-role message is missing
ledger_returns_not_on_duplicate(o) == o \in {"NO_ROLE", "ALREADY_SET"}

\* a failed check edits the message and returns
ledger_returns(o) == o # "OK"

Rejections == {"NO_ROLE", "DUPLICATE_USER", "ALREADY_SET"}

----------------------------------------------------------------------------
(* Explorer responses.  A response is kept as what the code reads of it:   *)
(* HTTP 200 or not (a timeout is not), whether the body parses to what the *)
(* code indexes, data['status'] == '1', data['message'] == 'OK', whether   *)
(* the amount or list read from it is positive or non-empty, and whether   *)
(* 'balances' is a key of it (TronScan).                                   *)

Responses == [code200 : BOOLEAN, parses : BOOLEAN, status1 : BOOLEAN,
              messageOK : BOOLEAN, positive : BOOLEAN, balances : BOOLEAN]

\* three of them: no answer within the timeout; a success payload with a positive
\* amount or a non-empty list; a success payload with a zero amount or an empty list
TimedOut == [code200 |-> FALSE, parses |-> FALSE, status1 |-> FALSE,
             messageOK |-> FALSE, positive |-> FALSE, balances |-> FALSE]
Funded   == [code200 |-> TRUE, parses |-> TRUE, status1 |-> TRUE,
             messageOK |-> TRUE, positive |-> TRUE, balances |-> TRUE]
Empty    == [code200 |-> TRUE, parses |-> TRUE, status1 |-> TRUE,
             messageOK |-> TRUE, positive |-> FALSE, balances |-> TRUE]

FewResponses == {TimedOut, Funded, Empty}

\* a 200 of Etherscan with message 'OK' and a status other than '1', and a positive amount
MessageOnly == [code200 |-> TRUE, parses |-> TRUE, status1 |-> FALSE,
                messageOK |-> TRUE, positive |-> TRUE, balances |-> FALSE]

chains_to_check == <<"ETH", "BSC", "POLYGON">>

\* CHAIN_CONFIGS[chain]['name']
ChainName(c) ==
    CASE c = "ETH" -> "Ethereum"
      [] c = "BSC" -> "BNB Smart Chain"
      [] c = "POLYGON" -> "Polygon"

\* message 'OK' is taken for a success on every chain
BalanceResult_message_everywhere(c, resp) ==
    IF ~resp.code200 \/ ~resp.parses THEN "failed"
    ELSE IF ~(resp.status1 \/ resp.messageOK) THEN "failed"
    ELSE IF resp.positive THEN "positive" ELSE "zero"

\* a balance request that failed is taken for a zero balance, so that the activity
\* check of the chain follows
BalanceResult_zero_on_failure(c, resp) ==
    IF /\ resp.code200 /\ resp.parses
       /\ resp.status1 \/ (c = "ETH" /\ resp.messageOK)
       /\ resp.positive
    THEN "positive" ELSE "zero"

\* verify_evm_chain, the balance request of one chain: "failed" (an exception, a status
\* other than 200, a payload that is not a success), "positive" or "zero"
BalanceResult(c, resp) ==
    IF ~resp.code200 \/ ~resp.parses THEN "failed"
    ELSE IF ~(resp.status1 \/ (c = "ETH" /\ resp.messageOK)) THEN "failed"
    ELSE IF resp.positive THEN "positive" ELSE "zero"

\* any payload of a 200 is taken for activity
check_evm_activity_any_200(resp) == resp.code200 /\ resp.parses

\* check_evm_activity: True only for a 200 whose payload has status '1' and a non-empty list
check_evm_activity(resp) ==
    resp.code200 /\ resp.parses /\ resp.status1 /\ resp.positive

\* what an explorer can answer a request with: HTTP 200 and a payload the code takes
\* for a success (status '1'; for the balance of Etherscan also message 'OK')
SuccessPayload(kind, c, resp) ==
    /\ resp.code200 /\ resp.parses
    /\ \/ resp.status1
       \/ kind = "balance" /\ c = "ETH" /\ resp.messageOK

\* one answer as the log keeps it: the chain asked, what was asked (the balance, or the
\* transaction list of check_evm_activity), whether the answer was a success payload
\* and whether its amount was positive or its list non-empty
LogEntry(kind, c, resp) ==
    [chain |-> c, kind |-> kind, ok |-> SuccessPayload(kind, c, resp),
     positive |-> SuccessPayload(kind, c, resp) /\ resp.positive]

\* the request raises (a timeout, a body that does not parse) or the code reading the
\* answer does: "except Exception: continue" in verify_evm_chain, "except: pass" in
\* check_evm_activity and "except Exception" in get_wallet_info catch all of it.
\* (Below: only a status other than 200 is survived, a timeout raises.)
absorbed_http_errors_only(resp) == resp.code200

\* a body that does not parse raises out of the function
absorbed_parsed_only(resp) == resp.parses

absorbed(resp) == TRUE

\* the label when no chain entered results
UnverifiedLabel == "EVM (Unverified)"

\* the last chain of results is taken
NextInResults_last(results, i) ==
    LET later == {j \in i..Len(chains_to_check) : chains_to_check[j] \in DOMAIN results} IN
    IF later = {} THEN 0 ELSE CHOOSE j \in later : \A k \in later : j >= k

\* the first chain, from position i of chains_to_check on, that is in results; 0 when none
NextInResults(results, i) ==
    LET later == {j \in i..Len(chains_to_check) : chains_to_check[j] \in DOMAIN results} IN
    IF later = {} THEN 0 ELSE CHOOSE j \in later : \A k \in later : j <= k

\* the last chain with a balance is taken
FirstWithBalance_last(results) ==
    LET pos == {j \in 1..Len(chains_to_check) :
                  chains_to_check[j] \in DOMAIN results /\ results[chains_to_check[j]].balance_positive} IN
    IF pos = {} THEN 0 ELSE CHOOSE j \in pos : \A k \in pos : j >= k

\* "Prefer chains with balance": the first chain of results with a balance, 0 when none
FirstWithBalance(results) ==
    LET pos == {j \in 1..Len(chains_to_check) :
                  chains_to_check[j] \in DOMAIN results /\ results[chains_to_check[j]].balance_positive} IN
    IF pos = {} THEN 0 ELSE CHOOSE j \in pos : \A k \in pos : j <= k

\* the default of wallet_info.get('status', ...) is what every record gets
WalletStatus_verified_by_default(chain_type, resp) == "Verified"

\* get_wallet_info: wallet_info['status'] from the response to its one request
WalletStatus(chain_type, resp) ==
    IF ~resp.code200 \/ ~resp.parses THEN "Unverified"
    ELSE CASE chain_type \in {"BTC", "LTC"} -> IF resp.positive THEN "Verified" ELSE "New"
           [] chain_type = "EVM" ->
                IF resp.status1 THEN (IF resp.positive THEN "Verified" ELSE "New") ELSE "Unverified"
           [] chain_type = "TRX" ->
                IF resp.balances THEN (IF resp.positive THEN "Verified" ELSE "New") ELSE "Unverified"
           [] OTHER -> "Unverified"

NoLookup == [asked |-> FALSE, ok |-> FALSE, positive |-> FALSE]

\* the response to get_wallet_info's request as lookup keeps it (history, kept for an
\* invocation whose record was written): whether it was a 200 with the payload the
\* family's branch reads, and whether that payload reported at least one transaction
WalletLookup(chain_type, resp) ==
    LET ok == /\ resp.code200 /\ resp.parses
              /\ (chain_type = "EVM") => resp.status1
              /\ (chain_type = "TRX") => resp.balances
    IN [asked |-> TRUE, ok |-> ok, positive |-> ok /\ resp.positive]

\* get_wallet_info issues a request for these families only (for EVM, with the
\* etherscan key configured, as it is by default)
WalletRequests(chain_type) == IF chain_type \in {"BTC", "LTC", "EVM", "TRX"} THEN 1 ELSE 0

----------------------------------------------------------------------------
(* handle_address_command: one invocation *)

NoRecord == [address |-> NoAddress, chain |-> None, user_id |-> 0, status |-> None]

NoEvent == [user |-> 0, role_key |-> None, address |-> NoAddress]

\* group, addresses, chain_type, final_chain, evm_info: the handler's variables of these
\* names (group is user_group_id); idx, results: verify_evm_chain's position in
\* chains_to_check and its results dict; any_ok (history): some balance request of
\* verify_evm_chain was answered with a success payload; log (history): what each
\* request of verify_evm_chain was answered with, in the order of the answers
InitLoc == [group |-> None, addresses |-> EmptyDict, chain_type |-> None,
            idx |-> 0, results |-> EmptyDict, final_chain |-> None, evm_info |-> EmptyDict,
            any_ok |-> FALSE, log |-> <<>>, lookup |-> NoLookup]

\* data/active_groups.json as handle_begin_command finds it before any session: every
\* group has its record, with the creator's id, and no session initiated (0 stands
\* for a user id the record does not have yet)
InitGroups ==
    [g \in Groups |-> [creator_user_id |-> 3, session_initiated |-> FALSE,
                       members |-> <<>>, user1_id |-> 0, user2_id |-> 0]]

NothingSent == [g \in Groups |-> [begins |-> 0, prompts |-> 0, photos |-> 0]]

\* load_blacklist when data/blacklist.json does not exist
NoBlacklist == [users |-> <<>>, usernames |-> <<>>]

\* a user id as Python has it: the number n, and str(n)
IntId(n) == <<"int", n>>
str(user_id) == <<"str", user_id[2]>>

\* user_id=None, and username=None
NoId == <<"none", 0>>
NoUsername == ""

NoCalls == [added |-> {}, last |-> [op |-> None, user_id |-> NoId, username |-> NoUsername, present |-> FALSE]]

\* how save_json can end: the file written; IOError before the file is opened for
\* writing (the file is as it was); IOError after open(filepath, 'w') truncated it
\* (what is left does not parse)
SaveResults == {"written", "error_before_open", "error_after_open"}

Init ==
    /\ roles_file = [order |-> <<>>, data |-> EmptyDict]
    /\ addr_file = [ok |-> TRUE, data |-> EmptyDict]
    /\ pc = [p \in Procs |-> "idle"]
    /\ ev = [p \in Procs |-> NoEvent]
    /\ loc = [p \in Procs |-> InitLoc]
    /\ outcome = [p \in Procs |-> None]
    /\ http = [p \in Procs |-> 0]
    /\ recAtStart = [p \in Procs |-> {}]
    /\ firstSaved = [k \in Groups \X Roles |-> NoRecord]
    /\ nsub = 0
    /\ groups_file = InitGroups
    /\ sent = NothingSent
    /\ blacklist_file = NoBlacklist
    /\ calls = NoCalls

\* the (group, role) pairs with a record in the address store
RecordKeys(addresses) == {k \in Groups \X Roles : HasRecord(addresses, k[1], k[2])}

\* where a slot holds no invocation in flight: none yet, or one that has returned
Over == {"idle", "done"}

\* the command arrives, in a slot whose last invocation is over; a command with no
\* address is answered with the prompt
Start(p, addresses) ==
    /\ pc[p] \in Over
    /\ nsub < MaxSubmissions
    /\ \E user \in Users, role_key \in Roles, address \in addresses :
        /\ ev' = [ev EXCEPT ![p] = [user |-> user, role_key |-> role_key, address |-> address]]
        /\ pc' = [pc EXCEPT ![p] = IF address = NoAddress THEN "done" ELSE "format"]
        /\ outcome' = [outcome EXCEPT ![p] = IF address = NoAddress THEN "PROMPT" ELSE None]
    /\ loc' = [loc EXCEPT ![p] = InitLoc]
    /\ http' = [http EXCEPT ![p] = 0]
    /\ recAtStart' = [recAtStart EXCEPT ![p] = RecordKeys(load_json(addr_file))]
    /\ nsub' = nsub + 1
    /\ UNCHANGED <<roles_file, addr_file, firstSaved, groups_file, sent, blacklist_file, calls>>

\* "Step 1: Format validation"
DetectFormat(p) ==
    /\ pc[p] = "format"
    /\ LET chain_type == detect_format(ev[p].address) IN
        /\ loc' = [loc EXCEPT ![p].chain_type = chain_type]
        /\ pc' = [pc EXCEPT ![p] = IF format_returns(chain_type) THEN "done" ELSE "ledger"]
        /\ outcome' = [outcome EXCEPT ![p] = IF chain_type = "UNKNOWN" THEN "INVALID_FORMAT" ELSE None]
    /\ UNCHANGED <<roles_file, addr_file, ev, http, recAtStart, firstSaved, nsub, groups_file, sent, blacklist_file, calls>>

\* where the invocation waits once the checks have passed: verify_evm_chain's first
\* balance request for an EVM address, get_wallet_info's request for the others
AfterChecks(l, h) ==
    IF l.chain_type = "EVM"
    THEN [pc |-> "evm_balance", loc |-> [l EXCEPT !.idx = 1], http |-> h + 1]
    ELSE [pc |-> "wallet", loc |-> [l EXCEPT !.final_chain = chain_name_of(l.chain_type)],
          http |-> h + WalletRequests(l.chain_type)]

\* "Load data" to "Verify address": both stores are loaded and checked in one stretch
Ledger(p) ==
    /\ pc[p] = "ledger"
    /\ LET roles == roles_file
           addresses == load_json(addr_file)
           o == LedgerOutcome(roles, addresses, ev[p].user, ev[p].role_key)
           l == [loc[p] EXCEPT !.group = FindUserGroup(roles, ev[p].user), !.addresses = addresses]
           next == AfterChecks(l, http[p]) IN
        /\ outcome' = [outcome EXCEPT ![p] = IF o = "OK" THEN None ELSE o]
        /\ IF ledger_returns(o)
           THEN /\ pc' = [pc EXCEPT ![p] = "done"]
                /\ loc' = [loc EXCEPT ![p] = l]
                /\ UNCHANGED http
           ELSE /\ pc' = [pc EXCEPT ![p] = next.pc]
                /\ loc' = [loc EXCEPT ![p] = next.loc]
                /\ http' = [http EXCEPT ![p] = next.http]
    /\ UNCHANGED <<roles_file, addr_file, ev, recAtStart, firstSaved, nsub, groups_file, sent, blacklist_file, calls>>

\* verify_evm_chain returns its label and info dict, its own variables are gone;
\* get_wallet_info(address, 'EVM') issues its request
ToWallet(l, h, label, info) ==
    [pc |-> "wallet",
     loc |-> [l EXCEPT !.final_chain = label, !.evm_info = info, !.idx = 0, !.results = EmptyDict],
     http |-> h + WalletRequests("EVM")]

\* the label verify_evm_chain returns for chain c of results
ChainLabel(c, suffix) == ChainName(c) \o suffix

\* the first chain is taken without asking whether results has any
Decide_first_chain(l, h) ==
    ToWallet(l, h, ChainLabel(chains_to_check[1], " (Unused)"), EmptyDict)

\* no chain is preferred for its balance: the activity checks decide
Decide_activity_first(l, h) ==
    IF DOMAIN l.results = {} THEN ToWallet(l, h, UnverifiedLabel, EmptyDict)
    ELSE [pc |-> "evm_decide", loc |-> [l EXCEPT !.idx = NextInResults(l.results, 1)], http |-> h + 1]

\* verify_evm_chain, "Decision logic"
Decide(l, h) ==
    IF DOMAIN l.results = {} THEN ToWallet(l, h, UnverifiedLabel, EmptyDict)
    ELSE IF FirstWithBalance(l.results) # 0
         THEN LET c == chains_to_check[FirstWithBalance(l.results)] IN
              ToWallet(l, h, ChainLabel(c, " (ERC-20)"), l.results[c])
         ELSE [pc |-> "evm_decide", loc |-> [l EXCEPT !.idx = NextInResults(l.results, 1)], http |-> h + 1]

\* the loop ends as soon as a chain is in results
MoveOn_until_found(l, h) ==
    IF l.idx < Len(chains_to_check) /\ DOMAIN l.results = {}
    THEN [pc |-> "evm_balance", loc |-> [l EXCEPT !.idx = l.idx + 1], http |-> h + 1]
    ELSE Decide(l, h)

\* the loop over chains_to_check goes on to the next chain, or ends
MoveOn(l, h) ==
    IF l.idx < Len(chains_to_check)
    THEN [pc |-> "evm_balance", loc |-> [l EXCEPT !.idx = l.idx + 1], http |-> h + 1]
    ELSE Decide(l, h)

\* an exception that leaves verify_evm_chain or get_wallet_info reaches the handler's
\* "except Exception as e" and is answered with "Internal Error"
Raised(l) == [pc |-> "done", loc |-> l, http |-> 0, outcome |-> "INTERNAL_ERROR"]

Goto(p, next) ==
    /\ pc' = [pc EXCEPT ![p] = next.pc]
    /\ loc' = [loc EXCEPT ![p] = next.loc]
    /\ http' = [http EXCEPT ![p] = IF next.pc = "done" THEN http[p] ELSE next.http]
    /\ outcome' = [outcome EXCEPT ![p] = IF next.pc = "done" THEN next.outcome ELSE outcome[p]]
    /\ UNCHANGED <<roles_file, addr_file, ev, recAtStart, firstSaved, nsub, groups_file, sent, blacklist_file, calls>>

\* the response to the balance request of chain idx
EvmBalance(p, responses) ==
    /\ pc[p] = "evm_balance"
    /\ \E resp \in responses :
        LET c == chains_to_check[loc[p].idx]
            r == BalanceResult(c, resp)
            l == [loc[p] EXCEPT !.any_ok = @ \/ r # "failed",
                                !.log = Append(@, LogEntry("balance", c, resp))] IN
        Goto(p, CASE ~absorbed(resp) -> Raised(l)
                  [] r = "failed" -> MoveOn(l, http[p])
                  [] r = "positive" ->
                        MoveOn([l EXCEPT !.results = Put(l.results, c, [balance_positive |-> TRUE])], http[p])
                  [] r = "zero" -> [pc |-> "evm_activity", loc |-> l, http |-> http[p] + 1])

\* the response to check_evm_activity's request for chain idx, in the loop
EvmActivity(p, responses) ==
    /\ pc[p] = "evm_activity"
    /\ \E resp \in responses :
        LET c == chains_to_check[loc[p].idx]
            l == [loc[p] EXCEPT !.log = Append(@, LogEntry("activity", c, resp))] IN
        Goto(p, IF ~absorbed(resp) THEN Raised(l)
                ELSE IF check_evm_activity(resp)
                THEN MoveOn([l EXCEPT !.results = Put(l.results, c, [balance_positive |-> FALSE])], http[p])
                ELSE MoveOn(l, http[p]))

\* the response to check_evm_activity's request for chain idx, in "check activity"
EvmDecide(p, responses) ==
    /\ pc[p] = "evm_decide"
    /\ \E resp \in responses :
        LET c == chains_to_check[loc[p].idx]
            l == [loc[p] EXCEPT !.log = Append(@, LogEntry("activity", c, resp))]
            j == NextInResults(l.results, l.idx + 1)
            first == chains_to_check[NextInResults(l.results, 1)] IN
        Goto(p, IF ~absorbed(resp) THEN Raised(l)
                ELSE IF check_evm_activity(resp)
                THEN ToWallet(l, http[p], ChainLabel(c, " (ERC-20/BEP-20)"), l.results[c])
                ELSE IF j # 0
                     THEN [pc |-> "evm_decide", loc |-> [l EXCEPT !.idx = j], http |-> http[p] + 1]
                     ELSE ToWallet(l, http[p], ChainLabel(first, " (Unused)"), l.results[first]))

\* addresses[user_group_id][role_key] = {...} on the copy this invocation loaded
WithRecord(addresses, g, role_key, rec) ==
    Put(addresses, g, Put(GroupAddresses(addresses, g), role_key, rec))

\* get_wallet_info returns and, with nothing awaited in between, the record is put into
\* the loaded copy and the whole copy is written: "Save address"
Wallet(p, responses, save_results) ==
    /\ pc[p] = "wallet"
    /\ \E resp \in responses, saved \in save_results :
        LET l == loc[p]
            status == IF WalletRequests(l.chain_type) = 1
                      THEN WalletStatus(l.chain_type, resp) ELSE "Unverified"
            rec == [address |-> ev[p].address, chain |-> l.final_chain,
                    user_id |-> ev[p].user, status |-> status]
            key == <<l.group, ev[p].role_key>> IN
        /\ addr_file' = CASE ~absorbed(resp) -> addr_file
                          [] saved = "written" ->
                                [ok |-> TRUE, data |-> WithRecord(l.addresses, l.group, ev[p].role_key, rec)]
                          [] saved = "error_before_open" -> addr_file
                          [] saved = "error_after_open" -> [ok |-> FALSE, data |-> EmptyDict]
        /\ outcome' = [outcome EXCEPT ![p] = CASE ~absorbed(resp) -> "INTERNAL_ERROR"
                                                [] saved = "written" -> "SAVED"
                                                [] OTHER -> "DATABASE_ERROR"]
        /\ firstSaved' = IF absorbed(resp) /\ saved = "written" /\ key \in DOMAIN firstSaved /\ firstSaved[key] = NoRecord
                         THEN [firstSaved EXCEPT ![key] = rec] ELSE firstSaved
        /\ loc' = [loc EXCEPT ![p].lookup = IF /\ WalletRequests(loc[p].chain_type) = 1
                                                /\ absorbed(resp) /\ saved = "written"
                                             THEN WalletLookup(loc[p].chain_type, resp) ELSE NoLookup]
    /\ pc' = [pc EXCEPT ![p] = "done"]
    /\ UNCHANGED <<roles_file, ev, http, recAtStart, nsub, groups_file, sent, blacklist_file, calls>>

\* no invocation is in flight
Alone == \A q \in Procs : pc[q] \in Over

\* invocations take the first slot that is free
FirstFree(p) == p = "p1" \/ pc["p1"] \notin Over

----------------------------------------------------------------------------
(* What the chains hold.  For the claims that speak of an address's         *)
(* transaction count, balance or code on a chain, a submitted EVM address   *)
(* comes with its state on each chain of chains_to_check, and an explorer   *)
(* either does not answer in time or answers with what its chain holds.     *)

MaxTx == 2

\* an address on one chain: the number of transactions sent from or to it, and whether
\* its balance is positive (an address can hold a balance with no transaction listed:
\* the txlist action lists normal transactions only)
ChainStates == [tx : 0..MaxTx, funded : BOOLEAN]

\* the state of an address on each chain; contract: the address has code on some chain
OnChain == {[ETH |-> e, BSC |-> b, POLYGON |-> g, contract |-> k] :
                e \in ChainStates, b \in ChainStates, g \in ChainStates, k \in BOOLEAN}

EvmAddresses == {[pre |-> "0x", n |-> 40, cs |-> {"hex", "alnum"}, d2 |-> FALSE, onchain |-> w] :
                    w \in OnChain}

\* the explorers' answer for an address with no transaction: status '0', message
\* 'No transactions found', an empty list
NoTransactions == [code200 |-> TRUE, parses |-> TRUE, status1 |-> FALSE,
                   messageOK |-> FALSE, positive |-> FALSE, balances |-> FALSE]

\* the answers to the balance request (api_urls[0]) of the chain at idx
BalanceAnswers(p) ==
    LET here == ev[p].address.onchain[chains_to_check[loc[p].idx]] IN
    {TimedOut, IF here.funded THEN Funded ELSE Empty}

\* the answers to check_evm_activity's request (api_urls[1]) for the chain at idx
ActivityAnswers(p) ==
    LET here == ev[p].address.onchain[chains_to_check[loc[p].idx]] IN
    {TimedOut, IF here.tx > 0 THEN Funded ELSE NoTransactions}

\* the answers to get_wallet_info's request: the transaction list of Etherscan
WalletAnswers(p) ==
    {TimedOut, IF ev[p].address.onchain["ETH"].tx > 0 THEN Funded ELSE NoTransactions}

----------------------------------------------------------------------------
(* The specifications *)

\* Spec: any interleaving, at their await points, of two invocations of
\* handle_address_command and of the role clicks.  The addresses submitted are of a
\* family with one explorer request (Bitcoin), malformed, or missing; the request
\* times out or is answered with a funded wallet; a write ends in any of SaveResults.
Next ==
    \/ \E sender \in Users, g \in Groups, role \in Roles : handle_role_selection(sender, g, role)
    \/ \E p \in Procs : FirstFree(p) /\ Start(p, {BtcAddress, BadAddress, NoAddress})
    \/ \E p \in Procs : DetectFormat(p)
    \/ \E p \in Procs : Ledger(p)
    \/ \E p \in Procs : Wallet(p, {TimedOut, Funded}, SaveResults)

Spec == Init /\ [][Next]_vars

\* SpecSeq: one submission at a time, role clicks at any time, and a failing write
\* leaving the file as it was
NextSeq ==
    \/ \E sender \in Users, g \in Groups, role \in Roles : handle_role_selection(sender, g, role)
    \/ \E p \in Procs : Alone /\ FirstFree(p) /\ Start(p, {BtcAddress, BadAddress, NoAddress})
    \/ \E p \in Procs : DetectFormat(p)
    \/ \E p \in Procs : Ledger(p)
    \/ \E p \in Procs : Wallet(p, FewResponses, {"written", "error_before_open"})

SpecSeq == Init /\ [][NextSeq]_vars

\* SpecResolver: one submission at a time, of an address of any of the sampled
\* families, every explorer response being any of Responses.  User 1 has chosen
\* buyer in g1 and user 2 has not chosen.
InitResolver ==
    /\ roles_file = WithRole([order |-> <<>>, data |-> EmptyDict], "g1", 1, "buyer")
    /\ addr_file = [ok |-> TRUE, data |-> EmptyDict]
    /\ pc = [p \in Procs |-> "idle"]
    /\ ev = [p \in Procs |-> NoEvent]
    /\ loc = [p \in Procs |-> InitLoc]
    /\ outcome = [p \in Procs |-> None]
    /\ http = [p \in Procs |-> 0]
    /\ recAtStart = [p \in Procs |-> {}]
    /\ firstSaved = [k \in Groups \X Roles |-> NoRecord]
    /\ nsub = 0
    /\ groups_file = InitGroups
    /\ sent = NothingSent
    /\ blacklist_file = NoBlacklist
    /\ calls = NoCalls

NextResolver ==
    \/ \E p \in Procs : Alone /\ FirstFree(p) /\ Start(p, Addresses)
    \/ \E p \in Procs : DetectFormat(p)
    \/ \E p \in Procs : Ledger(p)
    \/ \E p \in Procs : EvmBalance(p, Responses)
    \/ \E p \in Procs : EvmActivity(p, Responses)
    \/ \E p \in Procs : EvmDecide(p, Responses)
    \/ \E p \in Procs : Wallet(p, Responses, SaveResults)

SpecResolver == InitResolver /\ [][NextResolver]_vars

\* SpecLive: SpecResolver, where an invocation in flight goes on: the event loop
\* resumes it, and every request it awaits is answered or times out (the requests
\* carry a timeout of 10 seconds)
InFlightStep ==
    \E p \in Procs :
        \/ DetectFormat(p)
        \/ Ledger(p)
        \/ EvmBalance(p, Responses)
        \/ EvmActivity(p, Responses)
        \/ EvmDecide(p, Responses)
        \/ Wallet(p, Responses, SaveResults)

SpecLive == InitResolver /\ [][NextResolver]_vars /\ WF_vars(InFlightStep)

\* SpecChains: one submission, of an EVM address in any of the states of OnChain,
\* every explorer timing out or answering with what its chain holds.  Roles as in
\* SpecResolver.
NextChains ==
    \/ \E p \in Procs : nsub = 0 /\ FirstFree(p) /\ Start(p, EvmAddresses)
    \/ \E p \in Procs : DetectFormat(p)
    \/ \E p \in Procs : Ledger(p)
    \/ \E p \in Procs : EvmBalance(p, BalanceAnswers(p))
    \/ \E p \in Procs : EvmActivity(p, ActivityAnswers(p))
    \/ \E p \in Procs : EvmDecide(p, ActivityAnswers(p))
    \/ \E p \in Procs : Wallet(p, WalletAnswers(p), SaveResults)

SpecChains == InitResolver /\ [][NextChains]_vars

\* submissions take the two slots in turn, so that the resolution before the running
\* one stays to be looked at
InTurn(p) == p = (IF nsub % 2 = 0 THEN "p1" ELSE "p2")

\* SpecTwice: the same EVM address submitted again and again, one submission at a
\* time, after a write that failed or in vain; an explorer times out or answers with
\* one of the payloads the code tells apart.  Roles as in SpecResolver.
NextTwice ==
    \/ \E p \in Procs : Alone /\ InTurn(p) /\ Start(p, {EvmAddress})
    \/ \E p \in Procs : DetectFormat(p)
    \/ \E p \in Procs : Ledger(p)
    \/ \E p \in Procs : EvmBalance(p, FewResponses \cup {MessageOnly, NoTransactions})
    \/ \E p \in Procs : EvmActivity(p, FewResponses \cup {MessageOnly, NoTransactions})
    \/ \E p \in Procs : EvmDecide(p, FewResponses \cup {MessageOnly, NoTransactions})
    \/ \E p \in Procs : Wallet(p, {TimedOut, Funded}, {"written", "error_before_open"})

SpecTwice == InitResolver /\ [][NextTwice]_vars

\* SpecPair: user 1 has chosen buyer and user 2 seller in g1; they submit Bitcoin and
\* Litecoin addresses, one submission at a time
InitPair ==
    /\ roles_file = WithRole(WithRole([order |-> <<>>, data |-> EmptyDict], "g1", 1, "buyer"),
                             "g1", 2, "seller")
    /\ addr_file = [ok |-> TRUE, data |-> EmptyDict]
    /\ pc = [p \in Procs |-> "idle"]
    /\ ev = [p \in Procs |-> NoEvent]
    /\ loc = [p \in Procs |-> InitLoc]
    /\ outcome = [p \in Procs |-> None]
    /\ http = [p \in Procs |-> 0]
    /\ recAtStart = [p \in Procs |-> {}]
    /\ firstSaved = [k \in Groups \X Roles |-> NoRecord]
    /\ nsub = 0
    /\ groups_file = InitGroups
    /\ sent = NothingSent
    /\ blacklist_file = NoBlacklist
    /\ calls = NoCalls

NextPair ==
    \/ \E p \in Procs : Alone /\ FirstFree(p) /\ Start(p, {BtcAddress, LtcAddress})
    \/ \E p \in Procs : DetectFormat(p)
    \/ \E p \in Procs : Ledger(p)
    \/ \E p \in Procs : Wallet(p, FewResponses, {"written", "error_before_open"})

SpecPair == InitPair /\ [][NextPair]_vars

\* SpecFormat: detect_format alone, on one submission of any of AbstractAddresses.
\* Roles as in SpecResolver.
NextFormat ==
    \/ \E p \in Procs : nsub = 0 /\ FirstFree(p) /\ Start(p, AbstractAddresses)
    \/ \E p \in Procs : DetectFormat(p)

SpecFormat == InitResolver /\ [][NextFormat]_vars

----------------------------------------------------------------------------
(* The claims.  /buyer and /seller are taken in a private chat only, so the *)
(* session of a submission is the one the handler resolves for its sender: *)
(* the first group of the role store that has an entry for the user.       *)

\* the session and role invocation p's submission is for, as the stores stand
SessionOf(p) == FindUserGroup(roles_file, ev[p].user)

\* the user's entry in group g of the role store says role r
HoldsRole(roles, g, user, r) ==
    /\ g \in DOMAIN roles.data
    /\ StrOf(user) \in DOMAIN roles.data[g]
    /\ roles.data[g][StrOf(user)].role = r

\* this step is invocation p's stretch from "Load data" on
LedgerStep(p) == pc[p] = "ledger" /\ pc'[p] # "ledger"

\* the address store as a handler would load it
Stored == load_json(addr_file)

\* C1 (ledger uniqueness, submissions one at a time): a submission by the holder of
\* a role in a session, for which a record existed when the submission started, is
\* answered 'Address Already Registered' and leaves the address store as it was;
\* and every record of the store is the first one saved for its (session, role).
C1_Step ==
    \A p \in Procs :
        (/\ LedgerStep(p)
         /\ SessionOf(p) # None
         /\ HoldsRole(roles_file, SessionOf(p), ev[p].user, ev[p].role_key)
         /\ <<SessionOf(p), ev[p].role_key>> \in recAtStart[p])
        => /\ outcome'[p] = "ALREADY_SET"
           /\ pc'[p] = "done"
           /\ addr_file' = addr_file

C1_FirstSaved ==
    \A k \in Groups \X Roles :
        HasRecord(Stored, k[1], k[2]) => Stored[k[1]][k[2]] = firstSaved[k]

C2_AtMostOneSaved ==
    \A p, q \in Procs :
        (/\ p # q
         /\ loc[p].group = loc[q].group /\ loc[p].group # None
         /\ ev[p].role_key = ev[q].role_key
         /\ ~HasRecord(loc[p].addresses, loc[p].group, ev[p].role_key)
         /\ ~HasRecord(loc[q].addresses, loc[q].group, ev[q].role_key))
        => ~(outcome[p] = "SAVED" /\ outcome[q] = "SAVED")

\* C3 (record durability): a record of the address store is still there, unchanged,
\* after the save of a submission for another role or another session.
C3_Step ==
    \A p \in Procs, k \in Groups \X Roles :
        (/\ pc[p] = "wallet" /\ outcome'[p] = "SAVED"
         /\ k # <<loc[p].group, ev[p].role_key>>
         /\ HasRecord(Stored, k[1], k[2]))
        => /\ addr_file'.ok
           /\ HasRecord(addr_file'.data, k[1], k[2])
           /\ addr_file'.data[k[1]][k[2]] = Stored[k[1]][k[2]]

C3_RecordsDurable == [][C3_Step]_vars

\* the user has an entry in no group of the role store
HasNoRole(roles, user) ==
    \A g \in Groups, r \in Roles : ~HoldsRole(roles, g, user, r)

\* the user's entry in the session invocation p's submission is for says the role
\* that is not the role of the command
HoldsOtherRole(p) ==
    /\ SessionOf(p) # None
    /\ \E r \in Roles \ {ev[p].role_key} : HoldsRole(roles_file, SessionOf(p), ev[p].user, r)

\* C4 (role exclusivity): a submission with the command of one role, by a user who
\* holds the other role in the session, is answered 'Duplicate Role Detected' and
\* ends there; neither that step nor any later step of the invocation changes the
\* address store.
C4_Step ==
    \A p \in Procs :
        /\ (LedgerStep(p) /\ HoldsOtherRole(p))
            => /\ outcome'[p] = "DUPLICATE_USER"
               /\ pc'[p] = "done"
               /\ addr_file' = addr_file
        /\ (outcome[p] = "DUPLICATE_USER" /\ pc'[p] # pc[p]) => addr_file' = addr_file

C4_RoleExclusivity == [][C4_Step]_vars

\* the holder of the other role was answered 'Duplicate Role Detected'
C4_Witness ==
    \E p \in Procs :
        /\ outcome[p] = "DUPLICATE_USER"
        /\ pc[p] = "done"
        /\ HoldsOtherRole(p)

\* C5 (no role, no record): a submission by a user with an entry in no group of the
\* role store is answered 'Access Denied' and ends there, and the address store and
\* the role store are as they were.
C5_Step ==
    \A p \in Procs :
        (LedgerStep(p) /\ HasNoRole(roles_file, ev[p].user))
        => /\ outcome'[p] = "NO_ROLE"
           /\ pc'[p] = "done"
           /\ addr_file' = addr_file
           /\ roles_file' = roles_file

C5_NoRoleNoRecord == [][C5_Step]_vars

\* a user with no role was answered 'Access Denied', the other user having a role
C5_Witness ==
    \E p \in Procs :
        /\ outcome[p] = "NO_ROLE"
        /\ HasNoRole(roles_file, ev[p].user)
        /\ \E u \in Users : ~HasNoRole(roles_file, u)

\* C6 (owner invariant): the owner of every record stored under (session, role) has,
\* in the role store, an entry in that session with that role.
C6_OwnerHoldsRole ==
    \A k \in Groups \X Roles :
        HasRecord(Stored, k[1], k[2])
        => HoldsRole(roles_file, k[1], Stored[k[1]][k[2]].user_id, k[2])

\* a session has the records of both roles
C6_Witness ==
    \E g \in Groups : HasRecord(Stored, g, "buyer") /\ HasRecord(Stored, g, "seller")

\* the answer the checks give when taken in the order no role, other role, role
\* already has an address; "none" when all three pass
C7_Expected(p) ==
    IF HasNoRole(roles_file, ev[p].user) THEN "NO_ROLE"
    ELSE IF HoldsOtherRole(p) THEN "DUPLICATE_USER"
    ELSE IF HasRecord(Stored, SessionOf(p), ev[p].role_key) THEN "ALREADY_SET"
    ELSE None

\* C7 (check order): the answer of the ledger checks is that of the first failing
\* one in the order no role, duplicate role, address already set; the holder of the
\* other role gets the duplicate-role answer also when the role of the command has a
\* stored address.
C7_Step ==
    \A p \in Procs : LedgerStep(p) => outcome'[p] = C7_Expected(p)

C7_CheckOrder == [][C7_Step]_vars

\* the holder of the other role was answered 'Duplicate Role Detected' while the
\* role of the command had a stored address
C7_Witness ==
    \E p \in Procs :
        /\ outcome[p] = "DUPLICATE_USER"
        /\ HasRecord(loc[p].addresses, loc[p].group, ev[p].role_key)

\* C8 (unknown format): a submission whose address detect_format classifies UNKNOWN
\* is answered 'Invalid Address Format' and ends there, having issued no explorer
\* request and with the address store as it was; and the address of every stored
\* record is of a family detect_format recognizes.
C8_Step ==
    \A p \in Procs :
        (pc[p] = "format" /\ pc'[p] # "format" /\ detect_format(ev[p].address) = "UNKNOWN")
        => /\ outcome'[p] = "INVALID_FORMAT"
           /\ pc'[p] = "done"
           /\ http'[p] = 0
           /\ addr_file' = addr_file

C8_Stored ==
    /\ \A p \in Procs : outcome[p] = "INVALID_FORMAT" => http[p] = 0
    /\ \A k \in Groups \X Roles :
        HasRecord(Stored, k[1], k[2]) => detect_format(Stored[k[1]][k[2]].address) # "UNKNOWN"

C8_UnknownRejected == [][C8_Step]_vars /\ []C8_Stored

\* a malformed address was answered 'Invalid Address Format' by a user whose
\* well-formed address would have been saved
C8_Witness ==
    \E p \in Procs :
        /\ outcome[p] = "INVALID_FORMAT"
        /\ ev[p].address = BadAddress
        /\ HoldsRole(roles_file, SessionOf(p), ev[p].user, ev[p].role_key)
        /\ ~HasRecord(Stored, SessionOf(p), ev[p].role_key)

\* C9 (role checks precede resolution): an invocation answered with the no-role,
\* duplicate-role or already-set outcome has issued no explorer request; an
\* invocation that has issued one has passed the three checks on what it loaded.
C9_ChecksBeforeProbes ==
    \A p \in Procs :
        /\ outcome[p] \in Rejections => http[p] = 0
        /\ http[p] > 0
            => /\ loc[p].group # None
               /\ HoldsRole(roles_file, loc[p].group, ev[p].user, ev[p].role_key)
               /\ ~HasRecord(loc[p].addresses, loc[p].group, ev[p].role_key)

\* an EVM address, which would take three requests or more, was rejected by the
\* already-set check with none issued
C9_Witness ==
    \E p \in Procs :
        /\ outcome[p] = "ALREADY_SET"
        /\ ev[p].address = EvmAddress
        /\ http[p] = 0

\* verify_evm_chain has returned in invocation p and none of its balance requests
\* was answered with a success payload
AllProbesFailed(p) ==
    /\ loc[p].chain_type = "EVM"
    /\ pc[p] = "wallet" \/ (pc[p] = "done" /\ outcome[p] \in {"SAVED", "DATABASE_ERROR"})
    /\ ~loc[p].any_ok

\* invocation p was answered 'Saved' and its record is in the store under this label
SavedUnder(p, label) ==
    /\ outcome[p] = "SAVED"
    /\ HasRecord(Stored, loc[p].group, ev[p].role_key)
    /\ Stored[loc[p].group][ev[p].role_key].address = ev[p].address
    /\ Stored[loc[p].group][ev[p].role_key].chain = label

\* the warnings a result carries: the 'warnings' entry of the info dict, none when
\* the dict has no such entry
WarningsOf(info) == IF "warnings" \in DOMAIN info THEN info["warnings"] ELSE <<>>

----------------------------------------------------------------------------
(* The single-chain families *)

SingleFamilies == {"BTC", "LTC", "TRX"}

\* the record that invocation p's (session, role) has in the store
RecordOf(p) == Stored[loc[p].group][ev[p].role_key]

\* invocation p's address is of family t and its record is in the store with the
\* status get_wallet_info leaves when its request fails
SavedUnverified(p, t) ==
    /\ loc[p].chain_type = t
    /\ outcome[p] = "SAVED"
    /\ HasRecord(Stored, loc[p].group, ev[p].role_key)
    /\ RecordOf(p).address = ev[p].address
    /\ RecordOf(p).status = "Unverified"

\* C11 as amended (fail-open for BTC, LTC, TRON): once the checks have passed for an
\* address of a single-chain family, whatever get_wallet_info's request is answered
\* with, a failure included, the submission is not rejected: it is answered 'Saved'
\* and its record is in the store under the family's plain chain label, or the write
\* failed and it is answered 'Database Error'.
C11_Step ==
    \A p \in Procs :
        (/\ pc[p] = "wallet"
         /\ loc[p].chain_type \in SingleFamilies
         /\ pc'[p] = "done")
        => /\ outcome'[p] \in {"SAVED", "DATABASE_ERROR"}
           /\ outcome'[p] = "SAVED"
              => /\ HasRecord(load_json(addr_file'), loc[p].group, ev[p].role_key)
                 /\ load_json(addr_file')[loc[p].group][ev[p].role_key].address = ev[p].address
                 /\ load_json(addr_file')[loc[p].group][ev[p].role_key].chain
                        = CASE loc[p].chain_type = "BTC" -> "Bitcoin"
                            [] loc[p].chain_type = "LTC" -> "Litecoin"
                            [] loc[p].chain_type = "TRX" -> "Tron"

----------------------------------------------------------------------------
(* The resolver and what the chains hold (under SpecChains) *)

Candidates == {"ETH", "BSC", "POLYGON"}

\* what the chains hold of the address invocation p resolves
World(p) == ev[p].address.onchain

\* verify_evm_chain has returned to invocation p
Resolved(p) == loc[p].chain_type = "EVM" /\ loc[p].final_chain # None

\* every request of invocation p's resolution so far was answered, with what the chain holds
Truthful(p) ==
    \A i \in 1..Len(loc[p].log) :
        LET e == loc[p].log[i] IN
        IF e.kind = "balance"
        THEN e.ok /\ (e.positive <=> World(p)[e.chain].funded)
        ELSE e.positive <=> (World(p)[e.chain].tx > 0)

\* the candidate chains on which the address has transactions, or a balance
Active(w) == {c \in Candidates : w[c].tx > 0}
FundedOn(w) == {c \in Candidates : w[c].funded}

\* the place of a chain in the order Ethereum, BNB Smart Chain, Polygon
Place(c) == CASE c = "ETH" -> 1 [] c = "BSC" -> 2 [] c = "POLYGON" -> 3

\* the label names chain c
NamesChain(label, c) ==
    LET name == CASE c = "ETH" -> "Ethereum" [] c = "BSC" -> "BNB Smart Chain" [] c = "POLYGON" -> "Polygon" IN
    label \in {name \o " (ERC-20)", name \o " (ERC-20/BEP-20)", name \o " (Unused)"}

\* C12 (new wallet): when the address has no transaction on any candidate chain and
\* at least one balance probe was answered with a success payload, the label is not
\* the label of the case where every probe failed.
C12_NewWalletLabel ==
    \A p \in Procs :
        (/\ Resolved(p)
         /\ Active(World(p)) = {}
         /\ \E i \in 1..Len(loc[p].log) : loc[p].log[i].kind = "balance" /\ loc[p].log[i].ok)
        => loc[p].final_chain # "EVM (Unverified)"

----------------------------------------------------------------------------
(* Two resolutions of one address (under SpecTwice) *)

----------------------------------------------------------------------------
(* The probes of one resolution *)

\* where an invocation waits for an answer inside verify_evm_chain
InVerify == {"evm_balance", "evm_activity", "evm_decide"}

\* the chains whose balance request has been answered, in the order of the answers
BalanceAnswered(log) ==
    [i \in 1..Cardinality({j \in 1..Len(log) : log[j].kind = "balance"}) |->
        log[CHOOSE j \in 1..Len(log) :
                /\ log[j].kind = "balance"
                /\ Cardinality({k \in 1..j : log[k].kind = "balance"}) = i].chain]

\* C17 (contract warning): when the address is a contract on a candidate chain and
\* every probe was answered, the result's warnings begin with the contract warning.
C17_ContractWarningFirst ==
    \A p \in Procs :
        (Resolved(p) /\ Truthful(p) /\ World(p).contract)
        => /\ Len(WarningsOf(loc[p].evm_info)) > 0
           /\ WarningsOf(loc[p].evm_info)[1] = "contract"

C19_Step ==
    \A p \in Procs :
        /\ pc[p] \in InVerify => pc'[p] \in InVerify \cup {"wallet"}
        /\ (pc[p] \in InVerify /\ pc'[p] = "wallet") => loc'[p].final_chain # None
        /\ (pc[p] = "wallet" /\ pc'[p] = "done") => outcome'[p] \in {"SAVED", "DATABASE_ERROR"}
        /\ (/\ pc[p] = "evm_balance"
            /\ Len(loc'[p].log) = Len(loc[p].log) + 1
            /\ ~loc'[p].log[Len(loc'[p].log)].ok)
           => IF loc[p].idx < 3
              THEN /\ pc'[p] = "evm_balance" /\ loc'[p].idx = loc[p].idx + 1
                   /\ loc'[p].results = loc[p].results
              ELSE \/ pc'[p] = "evm_decide" /\ loc'[p].results = loc[p].results
                   \/ pc'[p] = "wallet" /\ ~NamesChain(loc'[p].final_chain, "POLYGON")

C19_FailuresAbsorbed == [][C19_Step]_vars

\* the requests for Ethereum and Polygon failed and the label names BNB Smart Chain
C19_Witness ==
    \E p \in Procs :
        /\ Resolved(p)
        /\ Len(loc[p].log) = 3
        /\ ~loc[p].log[1].ok /\ loc[p].log[2].ok /\ ~loc[p].log[3].ok
        /\ loc[p].final_chain = "BNB Smart Chain (ERC-20)"

\* C20 (no forged positive): a label that names a chain is returned only when the
\* balance request of that chain was answered, in this resolution, with HTTP 200 and
\* a success payload.
C20_NoForgedPositive ==
    \A p \in Procs : \A c \in Candidates :
        (Resolved(p) /\ NamesChain(loc[p].final_chain, c))
        => \E i \in 1..Len(loc[p].log) :
              /\ loc[p].log[i].chain = c
              /\ loc[p].log[i].kind = "balance"
              /\ loc[p].log[i].ok

\* Ethereum's balance request failed, Polygon's did not, and the label names Polygon
C20_Witness ==
    \E p \in Procs :
        /\ Resolved(p)
        /\ loc[p].log[1] = [chain |-> "ETH", kind |-> "balance", ok |-> FALSE, positive |-> FALSE]
        /\ NamesChain(loc[p].final_chain, "POLYGON")

----------------------------------------------------------------------------
(* A write that fails *)

\* C21 (persistence failure): a submission whose write of the address store fails is
\* answered 'Database Error', its address is not recorded, and the store holds after
\* the failed write every record it held before, unchanged.
C21_Step ==
    \A p \in Procs :
        (pc[p] = "wallet" /\ pc'[p] = "done" /\ outcome'[p] = "DATABASE_ERROR")
        => load_json(addr_file') = load_json(addr_file)

C21_FailedWriteKeepsRecords == [][C21_Step]_vars

----------------------------------------------------------------------------
(* Both records of a session (under SpecPair) *)

\* group g has a buyer record and a seller record in these addresses
PairComplete(addresses, g) == \A r \in Roles : HasRecord(addresses, g, r)

\* C22 (ready for chain match): the submission whose record completes the pair of
\* buyer and seller records of its session is not answered like a submission that
\* leaves the pair incomplete: a signal, or a warning when the two chains differ,
\* goes with its answer; and both records stay saved.
C22_Step ==
    \A p \in Procs :
        (/\ pc[p] = "wallet" /\ pc'[p] = "done"
         /\ ~PairComplete(load_json(addr_file), loc[p].group)
         /\ PairComplete(load_json(addr_file'), loc[p].group))
        => /\ outcome'[p] # "SAVED"
           /\ \A r \in Roles \ {ev[p].role_key} :
                 load_json(addr_file')[loc[p].group][r] = load_json(addr_file)[loc[p].group][r]

C22_ReadySignal == [][C22_Step]_vars

----------------------------------------------------------------------------
(* The patterns (under SpecFormat) *)

Families == {"BTC", "LTC", "EVM", "TRX", "DOGE", "XRP"}

\* the families with a pattern that matches the address
Matching(a) ==
    {f \in Families :
        CASE f = "BTC" -> MatchBTC(a) [] f = "LTC" -> MatchLTC(a) [] f = "EVM" -> MatchEVM(a)
          [] f = "TRX" -> MatchTRX(a) [] f = "DOGE" -> MatchDOGE(a) [] f = "XRP" -> MatchXRP(a)}

\* C23 (exclusive families): an address detect_format has looked at matches the
\* patterns of one family at most.
C23_ExclusiveFamilies ==
    \A p \in Procs :
        loc[p].chain_type # None => Cardinality(Matching(ev[p].address)) <= 1

----------------------------------------------------------------------------
(* The end of an invocation (under SpecLive) *)

Terminal == {"PROMPT", "INVALID_FORMAT", "NO_ROLE", "DUPLICATE_USER", "ALREADY_SET",
             "SAVED", "DATABASE_ERROR", "INTERNAL_ERROR"}

\* C24 (typed termination): every invocation of handle_address_command that has
\* started comes to its end; it has no outcome while it runs and, at its end, one of
\* prompt, invalid format, no role, duplicate role, already set, saved, database
\* error, internal error.
C24_Typed ==
    \A p \in Procs :
        /\ (pc[p] = "done") => (outcome[p] \in Terminal)
        /\ (pc[p] \notin Over) => (outcome[p] = None)

C24_TypedTermination ==
    /\ []C24_Typed
    /\ \A p \in Procs : (pc[p] \notin Over) ~> (pc[p] = "done")

\* an invocation that asked the explorers five times has ended with 'Saved'
C24_Witness ==
    \E p \in Procs : pc[p] = "done" /\ outcome[p] = "SAVED" /\ http[p] >= 5

----------------------------------------------------------------------------
(* main.py: /begin and the role buttons, each handler suspended at its     *)
(* awaits.  A slot holds one invocation of either handler; what it sends   *)
(* is counted in sent.                                                     *)

MaxBegins == 2

\* what get_participants can return: users 1 and 2, the creator of the group and a bot
Participants == {[id |-> 1, bot |-> FALSE], [id |-> 2, bot |-> FALSE],
                 [id |-> 3, bot |-> FALSE], [id |-> 4, bot |-> TRUE]}

\* the ids of a set of participants, in ascending order
RECURSIVE IdsOf(_)
IdsOf(ps) ==
    IF ps = {} THEN <<>>
    ELSE LET least == CHOOSE q \in ps : \A r \in ps : q.id <= r.id
         IN <<least.id>> \o IdsOf(ps \ {least})

\* the /begin loop over participants: "Skip bots", "Skip creator"
real_users_keeps_creator(participants, group_data) ==
    IdsOf({q \in participants : ~q.bot})

real_users(participants, group_data) ==
    IdsOf({q \in participants : ~q.bot /\ q.id # group_data.creator_user_id})

\* "Need exactly 2 users": if member_count < 2
insufficient_never(member_count) == FALSE

insufficient(member_count) == member_count < 2

\* "Check if already initiated"
already_initiated_never(group_data) == FALSE

already_initiated(group_data) == group_data.session_initiated

\* "Update group": session_initiated, user1_id and user2_id set in the copy of the
\* store loaded when the command arrived, and that copy written back
Initiated(groups, g, users) ==
    [groups EXCEPT ![g].session_initiated = TRUE, ![g].user1_id = users[1], ![g].user2_id = users[2]]

\* "Check if both roles selected": the counts over the handler's own copy
both_selected_always(group_roles) == TRUE

both_selected(group_roles) ==
    /\ \E k \in DOMAIN group_roles : group_roles[k].role = "buyer"
    /\ \E k \in DOMAIN group_roles : group_roles[k].role = "seller"

GroupRoles(roles, g) == IF g \in DOMAIN roles.data THEN roles.data[g] ELSE EmptyDict

Returned(p, answer) ==
    /\ pc' = [pc EXCEPT ![p] = "done"]
    /\ outcome' = [outcome EXCEPT ![p] = answer]

\* /begin arrives in group g; the handler awaits get_chat and get_sender
BeginArrives(p, g) ==
    /\ pc[p] \in Over
    /\ sent[g].begins < MaxBegins
    /\ pc' = [pc EXCEPT ![p] = "begin"]
    /\ ev' = [ev EXCEPT ![p] = [command |-> "/begin", group |-> g]]
    /\ loc' = [loc EXCEPT ![p] = [group |-> g]]
    /\ outcome' = [outcome EXCEPT ![p] = None]
    /\ sent' = [sent EXCEPT ![g].begins = @ + 1]
    /\ UNCHANGED <<roles_file, addr_file, http, recAtStart, firstSaved, nsub, groups_file, blacklist_file, calls>>

\* load_groups and the already-initiated check; the handler then awaits get_participants
BeginCheck(p) ==
    /\ pc[p] = "begin"
    /\ LET groups == groups_file
           g == loc[p].group IN
        IF already_initiated(groups[g])
        THEN /\ Returned(p, "SESSION_ALREADY_INITIATED")
             /\ UNCHANGED loc
        ELSE /\ pc' = [pc EXCEPT ![p] = "participants"]
             /\ loc' = [loc EXCEPT ![p] = [group |-> g, groups |-> groups]]
             /\ UNCHANGED outcome
    /\ UNCHANGED <<roles_file, addr_file, ev, http, recAtStart, firstSaved, nsub, groups_file, sent, blacklist_file, calls>>

\* get_participants has answered: the count, and otherwise members written to the
\* handler's copy and the copy saved; the handler then awaits create_merged_photo
BeginMembers(p, participants) ==
    /\ pc[p] = "participants"
    /\ LET g == loc[p].group
           users == real_users(participants, loc[p].groups[g])
           groups == [loc[p].groups EXCEPT ![g].members = users] IN
        IF insufficient(Len(users))
        THEN /\ Returned(p, "INSUFFICIENT_MEMBERS")
             /\ loc' = [loc EXCEPT ![p] = [group |-> g, groups |-> loc[p].groups,
                                           participants |-> participants, real_users |-> users]]
             /\ UNCHANGED groups_file
        ELSE /\ pc' = [pc EXCEPT ![p] = "photo"]
             /\ loc' = [loc EXCEPT ![p] = [group |-> g, groups |-> groups,
                                           participants |-> participants, real_users |-> users]]
             /\ groups_file' = groups
             /\ UNCHANGED outcome
    /\ UNCHANGED <<roles_file, addr_file, ev, http, recAtStart, firstSaved, nsub, sent, blacklist_file, calls>>

\* create_merged_photo has answered: with a photo the prompt with the role buttons is
\* sent and awaited; without one the handler goes on to "Update group" at once
BeginPhoto(p, success) ==
    /\ pc[p] = "photo"
    /\ LET g == loc[p].group IN
        IF success
        THEN /\ pc' = [pc EXCEPT ![p] = "prompt"]
             /\ sent' = [sent EXCEPT ![g].prompts = @ + 1]
             /\ UNCHANGED <<outcome, groups_file>>
        ELSE /\ Returned(p, "SESSION_INITIATED")
             /\ groups_file' = Initiated(loc[p].groups, g, loc[p].real_users)
             /\ UNCHANGED sent
    /\ UNCHANGED <<roles_file, addr_file, ev, loc, http, recAtStart, firstSaved, nsub, blacklist_file, calls>>

\* send_file has returned: "Update group"
BeginInitiated(p) ==
    /\ pc[p] = "prompt"
    /\ Returned(p, "SESSION_INITIATED")
    /\ groups_file' = Initiated(loc[p].groups, loc[p].group, loc[p].real_users)
    /\ UNCHANGED <<roles_file, addr_file, ev, loc, http, recAtStart, firstSaved, nsub, sent, blacklist_file, calls>>

\* a role button of group g is clicked; the handler awaits get_sender and get_chat
ClickArrives(p, sender, g, role) ==
    /\ pc[p] \in Over
    /\ pc' = [pc EXCEPT ![p] = "click"]
    /\ ev' = [ev EXCEPT ![p] = [user |-> sender, role_key |-> role, group |-> g]]
    /\ loc' = [loc EXCEPT ![p] = [group |-> g]]
    /\ outcome' = [outcome EXCEPT ![p] = None]
    /\ UNCHANGED <<roles_file, addr_file, http, recAtStart, firstSaved, nsub, groups_file, sent, blacklist_file, calls>>

\* "Load data" to "Save role", with no await in between; a click that is saved then
\* awaits event.answer and send_message.  loaded is history: the store as it was read.
ClickSave(p) ==
    /\ pc[p] = "click"
    /\ LET g == ev[p].group
           answer == SelectionAnswer(roles_file, g, ev[p].user, ev[p].role_key)
           roles == WithRole(roles_file, g, ev[p].user, ev[p].role_key) IN
        IF answer = "ROLE_SELECTED"
        THEN /\ roles_file' = roles
             /\ pc' = [pc EXCEPT ![p] = "confirm"]
             /\ loc' = [loc EXCEPT ![p] = [group |-> g, roles |-> roles, loaded |-> roles_file]]
             /\ UNCHANGED outcome
        ELSE /\ Returned(p, answer)
             /\ loc' = [loc EXCEPT ![p] = [group |-> g, roles |-> roles_file, loaded |-> roles_file]]
             /\ UNCHANGED roles_file
    /\ UNCHANGED <<addr_file, ev, http, recAtStart, firstSaved, nsub, groups_file, sent, blacklist_file, calls>>

\* the answer and the confirmation are sent: "Check if both roles selected"
ClickConfirm(p) ==
    /\ pc[p] = "confirm"
    /\ Returned(p, "ROLE_SELECTED")
    /\ LET g == loc[p].group IN
        sent' = [sent EXCEPT ![g].photos = IF both_selected(GroupRoles(loc[p].roles, g)) THEN @ + 1 ELSE @]
    /\ UNCHANGED <<roles_file, addr_file, ev, loc, http, recAtStart, firstSaved, nsub, groups_file, blacklist_file, calls>>

\* SpecBegin: /begin commands in both groups, two handlers in flight
NextBegin ==
    \/ \E p \in Procs, g \in Groups : BeginArrives(p, g)
    \/ \E p \in Procs : BeginCheck(p)
    \/ \E p \in Procs, participants \in SUBSET Participants : BeginMembers(p, participants)
    \/ \E p \in Procs, success \in BOOLEAN : BeginPhoto(p, success)
    \/ \E p \in Procs : BeginInitiated(p)

SpecBegin == Init /\ [][NextBegin]_vars

\* SpecClicks: role clicks in both groups, two handlers in flight
NextClicks ==
    \/ \E p \in Procs, sender \in Users, g \in Groups, role \in Roles : ClickArrives(p, sender, g, role)
    \/ \E p \in Procs : ClickSave(p)
    \/ \E p \in Procs : ClickConfirm(p)

SpecClicks == Init /\ [][NextClicks]_vars

----------------------------------------------------------------------------
(* Role selection *)

HasEntry(roles, g, user) == g \in DOMAIN roles.data /\ StrOf(user) \in DOMAIN roles.data[g]

C25_OneHolder ==
    \A g \in Groups, r \in Roles :
        Cardinality({u \in Users : HoldsRole(roles_file, g, u, r)}) <= 1

C25_Step ==
    \A p \in Procs :
        (/\ pc[p] = "click" /\ pc'[p] # "click"
         /\ ~HasEntry(roles_file, ev[p].group, ev[p].user)
         /\ \E u \in Users : HoldsRole(roles_file, ev[p].group, u, ev[p].role_key))
        => (outcome'[p] = "ROLE_ALREADY_TAKEN" /\ roles_file' = roles_file)

\* C25: role selection is first-come-first-served: in every reachable state each of
\* buyer and seller is held by at most one user per group, also when two users click
\* the same role button concurrently; the click handled later, of a user with no entry
\* for a role another user holds, is answered 'Role Already Taken' and leaves the role
\* store as it was.
C25_FirstComeFirstServed == []C25_OneHolder /\ [][C25_Step]_vars

\* two users clicked the same button of a group; one click is saved and its handler is
\* still awaiting its sends when the other has been answered 'Role Already Taken'
C25_Witness ==
    \E p, q \in Procs :
        /\ pc[q] = "confirm" /\ pc[p] = "done" /\ outcome[p] = "ROLE_ALREADY_TAKEN"
        /\ ev[p].group = ev[q].group /\ ev[p].role_key = ev[q].role_key /\ ev[p].user # ev[q].user
        /\ HoldsRole(roles_file, ev[q].group, ev[q].user, ev[q].role_key)
        /\ ~HasEntry(roles_file, ev[p].group, ev[p].user)

C26_Step ==
    /\ \A p \in Procs :
        (pc[p] = "click" /\ pc'[p] # "click" /\ HasEntry(roles_file, ev[p].group, ev[p].user))
        => (outcome'[p] = "ROLE_ALREADY_CHOSEN" /\ roles_file' = roles_file)
    /\ \A g \in Groups, u \in Users :
        HasEntry(roles_file, g, u)
        => (HasEntry(roles_file', g, u) /\ roles_file'.data[g][StrOf(u)] = roles_file.data[g][StrOf(u)])

\* C26: role selection is final: once a user has an entry in a group, every later role
\* click of that user in that group, for the same or the other role, is answered 'Role
\* Already Chosen', and no step changes or removes the entry, so the user keeps the one
\* role.
C26_SelectionFinal == [][C26_Step]_vars

\* a user holding one role of a group clicked the other role, which nobody holds, and
\* was answered 'Role Already Chosen'
C26_Witness ==
    \E p \in Procs :
        /\ pc[p] = "done" /\ outcome[p] = "ROLE_ALREADY_CHOSEN"
        /\ \E r \in Roles \ {ev[p].role_key} : HoldsRole(roles_file, ev[p].group, ev[p].user, r)
        /\ ~\E u \in Users : HoldsRole(roles_file, ev[p].group, u, ev[p].role_key)

BothAssigned(roles, g) ==
    /\ \E u \in Users : HoldsRole(roles, g, u, "buyer")
    /\ \E u \in Users : HoldsRole(roles, g, u, "seller")

\* the click whose save made both roles of its group assigned, its handler still
\* awaiting its sends
Completing(p) ==
    /\ pc[p] = "confirm"
    /\ ~BothAssigned(loc[p].loaded, loc[p].group)
    /\ BothAssigned(loc[p].roles, loc[p].group)

----------------------------------------------------------------------------
(* Session initiation *)

C28_Step ==
    \A p \in Procs :
        (pc[p] = "begin" /\ pc'[p] # "begin" /\ groups_file[loc[p].group].session_initiated)
        => /\ outcome'[p] = "SESSION_ALREADY_INITIATED"
           /\ groups_file' = groups_file
           /\ sent' = sent

C28_OnePrompt == \A g \in Groups : sent[g].prompts <= 1

\* C28: session initiation happens once: a /begin command in a group whose
\* session_initiated flag is true is answered with the already-initiated message and
\* changes nothing, and under any interleaving of /begin commands in a group the
\* role-selection prompt is sent at most once for that group.
C28_InitiatedOnce == [][C28_Step]_vars /\ []C28_OnePrompt

\* the participants that are neither bots nor the creator the group's record names
Remaining(participants, g) ==
    {q \in participants : ~q.bot /\ q.id # groups_file[g].creator_user_id}

C29_Step ==
    \A p \in Procs :
        (/\ pc[p] = "participants" /\ pc'[p] # "participants"
         /\ Cardinality(Remaining(loc'[p].participants, loc[p].group)) < 2)
        => /\ pc'[p] = "done" /\ outcome'[p] = "INSUFFICIENT_MEMBERS"
           /\ groups_file' = groups_file
           /\ sent' = sent

\* C29: /begin needs two participants: when fewer than 2 of the participants
\* get_participants returns remain after excluding bots and the group creator, the
\* handler answers with the insufficient-members message and returns, leaving the
\* groups store as it was and sending no prompt.
C29_NeedsTwoParticipants == [][C29_Step]_vars

\* /begin was answered 'insufficient members' in a group in which one user, the creator
\* and a bot are present, and the group's record is as it was at the start
C29_Witness ==
    \E p \in Procs :
        /\ pc[p] = "done" /\ outcome[p] = "INSUFFICIENT_MEMBERS"
        /\ Cardinality(loc[p].participants) = 3
        /\ Cardinality(Remaining(loc[p].participants, loc[p].group)) = 1
        /\ groups_file[loc[p].group] = InitGroups[loc[p].group]

----------------------------------------------------------------------------
(* The priority among the chains of results *)

\* the answers of one kind about chain c, in the order they came
AnswersOf(log, kind, c) == SelectSeq(log, LAMBDA e : e.kind = kind /\ e.chain = c)

\* the balance request of chain c was answered with a positive balance
BalanceFound(log, c) ==
    \E i \in 1..Len(log) : log[i].kind = "balance" /\ log[i].chain = c /\ log[i].positive

\* chain c was put into results: its balance request was answered with a success
\* payload, and the balance was positive or the activity check of the loop was true
PutInResults(log, c) ==
    \/ BalanceFound(log, c)
    \/ /\ \E i \in 1..Len(log) : log[i].kind = "balance" /\ log[i].chain = c /\ log[i].ok
       /\ Len(AnswersOf(log, "activity", c)) >= 1
       /\ AnswersOf(log, "activity", c)[1].positive

\* the activity check of "If all have 0 balance, check activity" on chain c, a chain
\* of results without a balance: the second activity check of c in the resolution
Rechecked(log, c) == Len(AnswersOf(log, "activity", c)) >= 2
RecheckedActive(log, c) == Rechecked(log, c) /\ AnswersOf(log, "activity", c)[2].positive

\* C30 (selection priority): when verify_evm_chain has returned, then if a chain of
\* results has a positive balance the label names the first such chain in the order
\* ETH, BSC, POLYGON, whatever activity an earlier chain of results has; and if none
\* has a positive balance and an activity check of the decision is true, the label
\* names the chain of that check, which is the first chain of results in that order
\* whose check is true; if none of these checks is true either, the label names the
\* first chain of results, put there by the activity check of the loop.
C30_SelectionPriority ==
    \A p \in Procs : \A c \in Candidates :
        /\ (/\ Resolved(p)
            /\ BalanceFound(loc[p].log, c)
            /\ \A d \in Candidates : BalanceFound(loc[p].log, d) => Place(c) <= Place(d))
           => loc[p].final_chain = ChainName(c) \o " (ERC-20)"
        /\ (/\ Resolved(p)
            /\ \A d \in Candidates : ~BalanceFound(loc[p].log, d)
            /\ RecheckedActive(loc[p].log, c))
           => /\ NamesChain(loc[p].final_chain, c)
              /\ PutInResults(loc[p].log, c)
              /\ \A d \in Candidates :
                    (PutInResults(loc[p].log, d) /\ Place(d) < Place(c))
                    => (Rechecked(loc[p].log, d) /\ ~RecheckedActive(loc[p].log, d))
        /\ (/\ Resolved(p)
            /\ \A d \in Candidates : ~BalanceFound(loc[p].log, d) /\ ~RecheckedActive(loc[p].log, d)
            /\ PutInResults(loc[p].log, c)
            /\ \A d \in Candidates : PutInResults(loc[p].log, d) => Place(c) <= Place(d))
           => loc[p].final_chain = ChainName(c) \o " (Unused)"

\* Ethereum is in results for its activity and BNB Smart Chain for its balance: the
\* label names BNB Smart Chain
C30_Witness ==
    \E p \in Procs :
        /\ Resolved(p)
        /\ PutInResults(loc[p].log, "ETH") /\ ~BalanceFound(loc[p].log, "ETH")
        /\ BalanceFound(loc[p].log, "BSC")
        /\ loc[p].final_chain = "BNB Smart Chain (ERC-20)"

----------------------------------------------------------------------------
(* No second query after a failure *)

\* the chains one of whose queries, in invocation p's resolution, timed out or was
\* answered with anything but a success payload
FailedChains(p) == {loc[p].log[i].chain : i \in {j \in 1..Len(loc[p].log) : ~loc[p].log[j].ok}}

\* no query of invocation p's resolution is answered, or in flight, after a failed
\* query to the same chain
NoRetryInVerify(p) ==
    /\ \A i, j \in 1..Len(loc[p].log) :
        (i < j /\ loc[p].log[i].chain = loc[p].log[j].chain) => loc[p].log[i].ok
    /\ (pc[p] \in InVerify) => (chains_to_check[loc[p].idx] \notin FailedChains(p))

\* get_wallet_info's request for an EVM address, to Etherscan, has been issued
WalletLookupIssued(p) == Resolved(p) /\ WalletRequests("EVM") = 1

\* C31 as amended (no retries): once a query of verify_evm_chain to a candidate chain
\* has timed out or failed, verify_evm_chain issues no further query to that chain in
\* this resolution.  (The wallet-info lookup that follows goes to Etherscan whatever
\* the probes of Ethereum gave.)
C31_NoRetryInResolution == \A p \in Procs : NoRetryInVerify(p)

\* Ethereum's balance request failed, BNB Smart Chain was asked for its balance and
\* twice for its activity, and the resolution has returned
C31_Witness ==
    \E p \in Procs :
        /\ Resolved(p)
        /\ Len(loc[p].log) >= 4
        /\ loc[p].log[1].chain = "ETH" /\ ~loc[p].log[1].ok
        /\ Len(AnswersOf(loc[p].log, "activity", "BSC")) = 2
        /\ \A i \in 2..Len(loc[p].log) : loc[p].log[i].chain # "ETH"

\* C31 as stated: ... no further query is issued to that chain for the rest of the
\* submission, the wallet-info lookup included.
C31_NoRetryInSubmission ==
    \A p \in Procs :
        /\ NoRetryInVerify(p)
        /\ WalletLookupIssued(p) => "ETH" \notin FailedChains(p)

----------------------------------------------------------------------------
(* The '(Unused)' label *)

UnusedLabels == {ChainName(c) \o " (Unused)" : c \in Candidates}

\* the activity check of chain c was true in the probing pass and false when repeated
\* in the decision pass
ChangedItsAnswer(log, c) ==
    /\ Len(AnswersOf(log, "activity", c)) >= 2
    /\ AnswersOf(log, "activity", c)[1].positive
    /\ ~AnswersOf(log, "activity", c)[2].positive

\* every activity check of the resolution gave, chain by chain, the same answer each
\* time it was called
SameAnswerEveryTime(log) ==
    \A i, j \in 1..Len(log) :
        (log[i].kind = "activity" /\ log[j].kind = "activity" /\ log[i].chain = log[j].chain)
        => (log[i].positive = log[j].positive)

\* C32: verify_evm_chain returns a label ending in '(Unused)' only if the activity
\* check of some chain was true in the probing pass and false when repeated in the
\* decision pass; when every chain's activity check gives the same answer each time it
\* is called within the resolution, the label is never an '(Unused)' label.
C32_UnusedNeedsInconsistentProbes ==
    \A p \in Procs :
        /\ (Resolved(p) /\ loc[p].final_chain \in UnusedLabels)
           => \E c \in Candidates : ChangedItsAnswer(loc[p].log, c)
        /\ (Resolved(p) /\ SameAnswerEveryTime(loc[p].log))
           => (loc[p].final_chain \notin UnusedLabels)

\* BNB Smart Chain had activity in the probing pass and none in the decision pass: the
\* label is 'BNB Smart Chain (Unused)'
C32_Witness ==
    \E p \in Procs :
        /\ Resolved(p)
        /\ loc[p].final_chain = "BNB Smart Chain (Unused)"
        /\ ChangedItsAnswer(loc[p].log, "BSC")

----------------------------------------------------------------------------
(* The status of a stored record *)

\* invocation p was answered 'Saved' and the record of its (session, role) is its own
SavedOwn(p) ==
    /\ outcome[p] = "SAVED"
    /\ HasRecord(Stored, loc[p].group, ev[p].role_key)
    /\ RecordOf(p).address = ev[p].address
    /\ RecordOf(p).user_id = ev[p].user

\* no request of invocation p's submission was answered with a success payload
EveryRequestFailed(p) ==
    /\ ~loc[p].lookup.ok
    /\ \A i \in 1..Len(loc[p].log) : ~loc[p].log[i].ok

\* C33 (Verified is backed by an observation): a stored record has status 'Verified'
\* only if the wallet lookup of its submission was answered with a success payload
\* that reported at least one transaction; a record saved after a wallet lookup that
\* failed, as it has when every explorer request of the submission failed, has status
\* 'Unverified'.
C33_VerifiedIsObserved ==
    \A p \in Procs :
        SavedOwn(p)
        => /\ (RecordOf(p).status = "Verified") => (loc[p].lookup.asked /\ loc[p].lookup.positive)
           /\ (~loc[p].lookup.ok) => (RecordOf(p).status = "Unverified")

\* an EVM address all of whose four requests failed is stored as 'Unverified'
C33_Witness ==
    \E p \in Procs :
        /\ SavedOwn(p) /\ loc[p].chain_type = "EVM"
        /\ Len(loc[p].log) = 3 /\ loc[p].lookup.asked
        /\ EveryRequestFailed(p)
        /\ RecordOf(p).status = "Unverified"

----------------------------------------------------------------------------
(* A holder of roles in several sessions *)

\* the sessions in which the user holds the role and no address is recorded for it
OpenSessions(user, role_key) ==
    {g \in Groups : HoldsRole(roles_file, g, user, role_key) /\ ~HasRecord(Stored, g, role_key)}

C34_Step ==
    \A p \in Procs :
        /\ (LedgerStep(p) /\ OpenSessions(ev[p].user, ev[p].role_key) # {})
           => /\ pc'[p] # "done"
              /\ loc'[p].group \in OpenSessions(ev[p].user, ev[p].role_key)
        /\ (pc[p] = "wallet" /\ pc'[p] = "done" /\ outcome'[p] = "SAVED")
           => /\ HasRecord(load_json(addr_file'), loc[p].group, ev[p].role_key)
              /\ load_json(addr_file')[loc[p].group][ev[p].role_key].user_id = ev[p].user

\* C34 (every role holder can register): when a user submits a well-formed address
\* with the command for role R and there is a session in which the user holds R and no
\* address is recorded yet for R, the checks let the submission through for such a
\* session, and the submission answered 'Saved' has its record stored under that
\* session and role - also when the user holds roles in more than one session.
C34_HolderCanRegister == [][C34_Step]_vars

----------------------------------------------------------------------------
(* The flag of an initiated session *)

C35_Step ==
    \A g \in Groups :
        groups_file[g].session_initiated => groups_file'[g].session_initiated

\* C35 (initiation is monotonic): once a group's session_initiated flag has been saved
\* as true it is true in every later state of the groups store, whatever /begin
\* commands are handled meanwhile in this group or in other groups.
C35_InitiationMonotonic == [][C35_Step]_vars

\* C36 (an initiated session can proceed): in every state where a group's
\* session_initiated flag is true, the role-selection prompt with the buyer and seller
\* buttons has been sent to that group.
C36_InitiatedHasPrompt ==
    \A g \in Groups : groups_file[g].session_initiated => sent[g].prompts >= 1

----------------------------------------------------------------------------
(* A session from /begin to the roles *)

\* who can click a button of the group's prompt: its two users and its creator
Clickers == Users \cup {q.id : q \in {r \in Participants : ~r.bot}}

\* SpecSession: /begin commands and role clicks in group g1, two handlers in flight;
\* a button is clicked only once a prompt has been sent
NextSession ==
    \/ \E p \in Procs : BeginArrives(p, "g1")
    \/ \E p \in Procs : BeginCheck(p)
    \/ \E p \in Procs, participants \in SUBSET Participants : BeginMembers(p, participants)
    \/ \E p \in Procs, success \in BOOLEAN : BeginPhoto(p, success)
    \/ \E p \in Procs : BeginInitiated(p)
    \/ \E p \in Procs, sender \in Clickers, role \in Roles :
            sent["g1"].prompts >= 1 /\ ClickArrives(p, sender, "g1", role)
    \/ \E p \in Procs : ClickSave(p)
    \/ \E p \in Procs : ClickConfirm(p)

SpecSession == Init /\ [][NextSession]_vars

C37_HoldersAreParticipants ==
    \A g \in Groups, u \in Clickers :
        HasEntry(roles_file, g, u) => u \in {groups_file[g].user1_id, groups_file[g].user2_id}

C37_Step ==
    \A g \in Groups, u \in Clickers :
        (~HasEntry(roles_file, g, u) /\ HasEntry(roles_file', g, u))
        => groups_file[g].session_initiated

\* C37 (roles go to the detected participants): in every reachable state every user
\* holding a role in a group is one of the two participants /begin recorded for the
\* group (user1_id, user2_id), and a role is taken only when the group's session has
\* been initiated.
C37_RolesForParticipants == []C37_HoldersAreParticipants /\ [][C37_Step]_vars

----------------------------------------------------------------------------
(* utils/blacklist.py *)

MaxEntries == 4

BlacklistIds == {IntId(n) : n \in Clickers}

Usernames == {"bob", "Bob", "eve", "Eve"}

\* username.lower()
lower(username) ==
    CASE username \in {"bob", "Bob"} -> "bob"
      [] username \in {"eve", "Eve"} -> "eve"
      [] OTHER -> username

\* the user objects handed to is_blacklisted: id, username (NoUsername when the user
\* has none) and whether the first name contains a name of known_scammers
UserObjects == [id : BlacklistIds, username : Usernames \cup {NoUsername}, scammer_name : BOOLEAN]

Range(seq) == {seq[i] : i \in 1..Len(seq)}

\* list.remove(x): the first occurrence goes
RemoveFirst(seq, x) ==
    LET first == CHOOSE i \in 1..Len(seq) : seq[i] = x /\ \A j \in 1..(i - 1) : seq[j] # x IN
    [i \in 1..(Len(seq) - 1) |-> IF i < first THEN seq[i] ELSE seq[i + 1]]

\* the entry is appended whether or not the list has it
add_to_blacklist_unchecked(blacklist, user_id, username) ==
    [users |-> IF user_id # NoId THEN Append(blacklist.users, user_id) ELSE blacklist.users,
     usernames |-> IF username # NoUsername
                   THEN Append(blacklist.usernames, lower(username)) ELSE blacklist.usernames]

\* add_to_blacklist: the blacklist it saves
add_to_blacklist(blacklist, user_id, username) ==
    [users |-> IF user_id # NoId /\ user_id \notin Range(blacklist.users)
               THEN Append(blacklist.users, user_id) ELSE blacklist.users,
     usernames |-> IF /\ username # NoUsername
                      /\ lower(username) \notin {lower(u) : u \in Range(blacklist.usernames)}
                   THEN Append(blacklist.usernames, lower(username)) ELSE blacklist.usernames]

\* remove_from_blacklist: the blacklist it saves
remove_from_blacklist(blacklist, user_id, username) ==
    [users |-> IF user_id # NoId /\ user_id \in Range(blacklist.users)
               THEN RemoveFirst(blacklist.users, user_id) ELSE blacklist.users,
     usernames |-> IF username # NoUsername
                   THEN SelectSeq(blacklist.usernames, LAMBDA u : u # lower(username))
                   ELSE blacklist.usernames]

\* is_blacklisted: the first component of what it returns
is_blacklisted(blacklist, user_obj) ==
    \/ user_obj.id # NoId /\ str(user_obj.id) \in Range(blacklist.users)
    \/ user_obj.username # NoUsername /\ lower(user_obj.username) \in Range(blacklist.usernames)
    \/ user_obj.scammer_name

\* whether everything the call names is on the lists already
Present(blacklist, user_id, username) ==
    /\ user_id # NoId \/ username # NoUsername
    /\ (user_id # NoId) => (user_id \in Range(blacklist.users))
    /\ (username # NoUsername) => (lower(username) \in Range(blacklist.usernames))

AddToBlacklist(user_id, username) ==
    /\ Len(blacklist_file.users) + Len(blacklist_file.usernames) < MaxEntries
    /\ blacklist_file' = add_to_blacklist(blacklist_file, user_id, username)
    /\ calls' = [added |-> IF user_id # NoId THEN calls.added \cup {user_id} ELSE calls.added,
                 last |-> [op |-> "add", user_id |-> user_id, username |-> username,
                           present |-> Present(blacklist_file, user_id, username)]]
    /\ UNCHANGED <<roles_file, addr_file, pc, ev, loc, outcome, http, recAtStart, firstSaved, nsub,
                   groups_file, sent>>

RemoveFromBlacklist(user_id, username) ==
    /\ blacklist_file' = remove_from_blacklist(blacklist_file, user_id, username)
    /\ calls' = [added |-> calls.added \ {user_id},
                 last |-> [op |-> "remove", user_id |-> user_id, username |-> username,
                           present |-> Present(blacklist_file, user_id, username)]]
    /\ UNCHANGED <<roles_file, addr_file, pc, ev, loc, outcome, http, recAtStart, firstSaved, nsub,
                   groups_file, sent>>

\* SpecBlacklist: any sequence of add_to_blacklist and remove_from_blacklist calls, by
\* id, by username or by both, from the state with no blacklist file
NextBlacklist ==
    \/ \E user_id \in BlacklistIds \cup {NoId}, username \in Usernames \cup {NoUsername} :
            AddToBlacklist(user_id, username)
    \/ \E user_id \in BlacklistIds \cup {NoId}, username \in Usernames \cup {NoUsername} :
            RemoveFromBlacklist(user_id, username)

SpecBlacklist == Init /\ [][NextBlacklist]_vars

\* a user with this id, no username and an ordinary first name
PlainUser(user_id) == [id |-> user_id, username |-> NoUsername, scammer_name |-> FALSE]

\* C38 (blacklist round trip): after add_to_blacklist(user_id=u) for a numeric user id
\* u, and until remove_from_blacklist(user_id=u), is_blacklisted reports True for every
\* user object whose id is u; after the removal it reports False for a user with that
\* id, no blacklisted username and no blacklisted name.
C38_RoundTrip ==
    \A u \in BlacklistIds :
        /\ (u \in calls.added)
           => \A user_obj \in UserObjects : (user_obj.id = u) => is_blacklisted(blacklist_file, user_obj)
        /\ (u \notin calls.added) => ~is_blacklisted(blacklist_file, PlainUser(u))

NoDuplicates(seq) == \A i, j \in 1..Len(seq) : (i # j) => (seq[i] # seq[j])

\* an add_to_blacklist call leaves alone each list that has what the call names
C39_Step ==
    (calls'.last.op = "add") =>
        /\ (calls'.last.user_id \in Range(blacklist_file.users))
           => (blacklist_file'.users = blacklist_file.users)
        /\ (lower(calls'.last.username) \in {lower(u) : u \in Range(blacklist_file.usernames)})
           => (blacklist_file'.usernames = blacklist_file.usernames)

C39_Unique ==
    /\ NoDuplicates(blacklist_file.users)
    /\ NoDuplicates([i \in 1..Len(blacklist_file.usernames) |-> lower(blacklist_file.usernames[i])])

\* C39 (no duplicates): after any sequence of add_to_blacklist and
\* remove_from_blacklist calls the stored users list has each user id at most once and
\* the stored usernames list each username at most once, compared case-insensitively;
\* a call that adds what is already on the lists leaves the lists unchanged.
C39_NoDuplicates == []C39_Unique /\ [][C39_Step]_vars

\* 'Bob' was added by id and username while the lists had the id and 'bob': both
\* lists are as they were, each entry once
C39_Witness ==
    /\ calls.last.op = "add" /\ calls.last.present
    /\ calls.last.user_id # NoId /\ calls.last.username = "Bob"
    /\ Len(blacklist_file.users) >= 2
    /\ "bob" \in Range(blacklist_file.usernames)

====
